---- MODULE Spec2Model ----
(***************************************************************************)
(* Chat sessions of the five provider clients: PerplexityChat,            *)
(* AnthropicChat, GeminiChat, GroqChat and OpenAIChat.  A session owns a   *)
(* configuration dictionary (current_config) and a message log            *)
(* (conversation_history).  The operations are send_message, the config   *)
(* update (update_config, or the inline 'config key=value' branch of the  *)
(* command loop for the two classes that have no update_config), the      *)
(* history clear and save_conversation.                                   *)
(*                                                                         *)
(* Python values are tagged records, so that a raw text "0.5" and the      *)
(* number 0.5 are different values.  Floats are held in hundredths.        *)
(***************************************************************************)
EXTENDS Integers, Sequences, FiniteSets, TLC

VARIABLES provider, api_key, constructed, current_config,
          conversation_history, calls, last, pure_sends

vars == <<provider, api_key, constructed, current_config,
          conversation_history, calls, last, pure_sends>>

Providers == {"perplexity", "anthropic", "gemini", "groq", "openai"}

(* ------------------------------------------------------------------ *)
(* Bounds of the model                                                 *)
(* ------------------------------------------------------------------ *)

\* Longest update batch (number of key=value items of one config command).
MaxBatch == 2

\* Longest conversation history a Send may start from, plus the two entries
\* it can append.
MaxHist == 4

\* Longest chunk sequence of one streamed response.
MaxChunks == 1

\* Longest chunk sequence of a streamed response that is followed chunk by
\* chunk.
MaxStream == 3

(* ------------------------------------------------------------------ *)
(* Python values                                                       *)
(* ------------------------------------------------------------------ *)

VText(s) == [t |-> "str", s |-> s, n |-> 0]

VFloat(h) == [t |-> "float", s |-> "", n |-> h]

VInt(i) == [t |-> "int", s |-> "", n |-> i]

VBool(b) == [t |-> "bool", s |-> "", n |-> IF b THEN 1 ELSE 0]

VNone == [t |-> "none", s |-> "", n |-> 0]

\* Python truthiness, as used by `if self.current_config['stream']:` and
\* `if self.current_config['search_recency_filter']:`.
Truthy(v) ==
    CASE v.t = "str" -> v.s # ""
      [] v.t = "none" -> FALSE
      [] OTHER -> v.n # 0

\* float(value): the number in hundredths, or an exception (ValueError for a
\* text that is no number, TypeError for None).  The texts are those of the
\* model's inputs.
PyFloat(v) ==
    CASE v.t = "str" /\ v.s = "0.5" -> [ok |-> TRUE, n |-> 50]
      [] v.t = "str" /\ v.s = "3.5" -> [ok |-> TRUE, n |-> 350]
      [] v.t = "str" /\ v.s = "100" -> [ok |-> TRUE, n |-> 10000]
      [] v.t = "str" /\ v.s = "0" -> [ok |-> TRUE, n |-> 0]
      [] v.t = "float" -> [ok |-> TRUE, n |-> v.n]
      [] v.t \in {"int", "bool"} -> [ok |-> TRUE, n |-> v.n * 100]
      [] OTHER -> [ok |-> FALSE, n |-> 0]

\* int(value): the integer, or an exception (int("0.5") is a ValueError too).
PyInt(v) ==
    CASE v.t = "str" /\ v.s = "100" -> [ok |-> TRUE, n |-> 100]
      [] v.t = "str" /\ v.s = "0" -> [ok |-> TRUE, n |-> 0]
      [] v.t = "float" /\ v.n >= 0 -> [ok |-> TRUE, n |-> v.n \div 100]
      [] v.t = "float" -> [ok |-> TRUE, n |-> -((-v.n) \div 100)]
      [] v.t \in {"int", "bool"} -> [ok |-> TRUE, n |-> v.n]
      [] OTHER -> [ok |-> FALSE, n |-> 0]

\* value.lower() on the texts of the model's inputs.
PyLower(s) ==
    CASE s = "NONE" -> "none"
      [] s = "True" -> "true"
      [] OTHER -> s

(* ------------------------------------------------------------------ *)
(* Construction: models, default configuration, system messages        *)
(* ------------------------------------------------------------------ *)

available_models(p) ==
    CASE p = "perplexity" ->
           {"llama-3.1-sonar-small-128k-chat", "llama-3.1-sonar-large-128k-chat",
            "llama-3.1-sonar-small-128k-online", "llama-3.1-sonar-large-128k-online",
            "llama-3.1-sonar-huge-128k-online"}
      [] p = "anthropic" ->
           {"claude-3-sonnet-20240229", "claude-3-sonnet",
            "claude-3-haiku-20240307", "claude-3-haiku"}
      [] p = "gemini" ->
           {"gemini-1.5-pro", "gemini-1.5-flash", "gemini-1.5-flash-8b"}
      [] p = "groq" ->
           {"gemma2-9b-it", "gemma-7b-it",
            "llama3-groq-70b-8192-tool-use-preview",
            "llama3-groq-8b-8192-tool-use-preview",
            "llama-3.1-70b-versatile", "llama-3.1-70b-specdec",
            "llama-3.1-8b-instant", "llama-3.2-1b-preview",
            "llama-3.2-3b-preview", "mixtral-8x7b-32768"}
      [] p = "openai" ->
           {"gpt-4o", "gpt-4o-mini", "gpt-4", "gpt-4-turbo", "gpt-3.5-turbo",
            "o1-preview", "o1-mini"}

GEMINI_FLASH_8B == "gemini-1.5-flash-8b"

AnthropicSystem ==
    "Voce e um prestativo assistente. Assuma o papel de especialista na pergunta realizada e responda."

\* self.system_messages of each class (the texts transliterated to ASCII).
system_messages(p) ==
    IF p = "anthropic"
    THEN [l \in {"pt-br", "en"} |->
            IF l = "pt-br" THEN AnthropicSystem
            ELSE "You are a helpful assistant. Take on the role of an expert in the question asked and respond."]
    ELSE [l \in {"pt-br", "en"} |->
            IF l = "pt-br"
            THEN "Voce e um assistente prestativo. Responda sempre em portugues do Brasil de forma clara e natural."
            ELSE "You are a helpful assistant. Always respond in English in a clear and natural way."]

\* self.current_config as __init__ leaves it.
DefaultConfig(p) ==
    CASE p = "perplexity" ->
           [model |-> VText("llama-3.1-sonar-small-128k-online"),
            temperature |-> VFloat(20),
            top_p |-> VFloat(90),
            top_k |-> VInt(0),
            max_tokens |-> VNone,
            presence_penalty |-> VInt(0),
            frequency_penalty |-> VInt(1),
            return_citations |-> VBool(TRUE),
            return_related_questions |-> VBool(FALSE),
            search_recency_filter |-> VNone,
            language |-> VText("pt-br")]
      [] p = "anthropic" ->
           [model |-> VText("claude-3-sonnet"),
            temperature |-> VFloat(70),
            max_tokens |-> VInt(1000),
            system |-> VText(AnthropicSystem),
            language |-> VText("pt-br")]
      [] p = "gemini" ->
           [model |-> VText("gemini-1.5-pro"),
            temperature |-> VFloat(70),
            top_k |-> VInt(40),
            top_p |-> VFloat(95),
            max_tokens |-> VInt(2048),
            language |-> VText("pt-br")]
      [] p = "groq" ->
           [model |-> VText("mixtral-8x7b-32768"),
            temperature |-> VFloat(70),
            top_p |-> VFloat(100),
            max_tokens |-> VNone,
            stream |-> VBool(TRUE),
            language |-> VText("pt-br")]
      [] p = "openai" ->
           [model |-> VText("gpt-3.5-turbo"),
            temperature |-> VFloat(70),
            top_p |-> VFloat(100),
            max_tokens |-> VNone,
            presence_penalty |-> VInt(0),
            frequency_penalty |-> VInt(0),
            stream |-> VBool(TRUE),
            language |-> VText("pt-br")]

(* ------------------------------------------------------------------ *)
(* Config update                                                       *)
(* ------------------------------------------------------------------ *)

\* An item of an update is [key, value].  The command loops build the items
\* from the command line, dict(item.split('=') for item in config_str.split()),
\* so there both are texts; update_config(**kwargs) takes any value.

Stored(cfg, key, v) == [ok |-> TRUE, cfg |-> [cfg EXCEPT ![key] = v]]

Rejected(cfg) == [ok |-> FALSE, cfg |-> cfg]

\* value not in self.available_models
ModelUnavailable(p, value) ==
    ~(value.t = "str" /\ value.s \in available_models(p))

\* not (0 <= float(value) <= 1), or float(value) raises
TemperatureRefused(value) ==
    \/ ~PyFloat(value).ok
    \/ ~(0 <= PyFloat(value).n /\ PyFloat(value).n <= 100)

\* GroqChat.update_config, the body of the loop for a key of current_config.
GroqStore(cfg, key, value) ==
    IF key = "model" /\ ModelUnavailable("groq", value)
    THEN Rejected(cfg)
    ELSE Stored(cfg, key, value)

\* AnthropicChat.update_config, the body of the loop for a key of current_config.
AnthropicStore(cfg, key, value) ==
    IF key = "model" /\ ModelUnavailable("anthropic", value)
    THEN Rejected(cfg)
    ELSE IF key = "temperature" /\ TemperatureRefused(value)
    THEN Rejected(cfg)
    ELSE IF key = "max_tokens" /\ (~PyInt(value).ok \/ PyInt(value).n <= 0)
    THEN Rejected(cfg)
    ELSE Stored(cfg, key, value)

\* GeminiChat.update_config, the body of the loop for a key of current_config.
GeminiStore(cfg, key, value) ==
    IF key = "model" /\ ModelUnavailable("gemini", value)
    THEN Rejected(cfg)
    ELSE IF key = "temperature" /\ TemperatureRefused(value)
    THEN Rejected(cfg)
    ELSE Stored(cfg, key, value)

\* int(value) if value.lower() != 'none' else None
OptionalInt(cfg, key, value) ==
    IF PyLower(value.s) # "none"
    THEN IF PyInt(value).ok
         THEN Stored(cfg, key, VInt(PyInt(value).n))
         ELSE Rejected(cfg)
    ELSE Stored(cfg, key, VNone)

\* A conversion that stores the text before converting it.
ToFloat_StoresFirst(cfg, key, value) ==
    IF PyFloat(value).ok
    THEN Stored(cfg, key, VFloat(PyFloat(value).n))
    ELSE [ok |-> FALSE, cfg |-> [cfg EXCEPT ![key] = value]]

\* value = float(value)
ToFloat(cfg, key, value) ==
    IF PyFloat(value).ok
    THEN Stored(cfg, key, VFloat(PyFloat(value).n))
    ELSE Rejected(cfg)

\* value = value.lower() == 'true'
ToBool(cfg, key, value) == Stored(cfg, key, VBool(PyLower(value.s) = "true"))

\* run_chat of openai_request.py, the config branch: the body of the loop for
\* a key of current_config.
OpenAIStore(cfg, key, value) ==
    IF key \in {"temperature", "top_p", "presence_penalty", "frequency_penalty"}
    THEN ToFloat(cfg, key, value)
    ELSE IF key = "max_tokens"
    THEN OptionalInt(cfg, key, value)
    ELSE IF key = "stream"
    THEN ToBool(cfg, key, value)
    ELSE Stored(cfg, key, value)

\* main of perplexity_request.py, the config branch: the body of the loop for
\* a key of current_config.
PerplexityStore(cfg, key, value) ==
    IF key \in {"temperature", "top_p", "presence_penalty", "frequency_penalty"}
    THEN ToFloat(cfg, key, value)
    ELSE IF key \in {"max_tokens", "top_k"}
    THEN OptionalInt(cfg, key, value)
    ELSE IF key \in {"return_citations", "return_related_questions"}
    THEN ToBool(cfg, key, value)
    ELSE Stored(cfg, key, value)

StoreKey(p, cfg, key, value) ==
    CASE p = "groq" -> GroqStore(cfg, key, value)
      [] p = "anthropic" -> AnthropicStore(cfg, key, value)
      [] p = "gemini" -> GeminiStore(cfg, key, value)
      [] p = "openai" -> OpenAIStore(cfg, key, value)
      [] p = "perplexity" -> PerplexityStore(cfg, key, value)

\* An unknown key that raises, as an unavailable model does.
UnknownKey_Raises(st, key) == [st EXCEPT !.raised = TRUE, !.failed = key]

\* An unknown key: the warning is printed and the loop goes on.
UnknownKey(st, key) == [st EXCEPT !.warned = Append(st.warned, key)]

\* The loop over the items of one update.  The dictionary is changed in place, so
\* what was stored before an exception stays stored, whatever the body did to
\* it before raising included; the exception ends the loop (it leaves
\* update_config, or the try block of the command loop).
RECURSIVE UpdateLoop(_, _, _)
UpdateLoop(p, st, items) ==
    IF items = <<>> \/ st.raised
    THEN st
    ELSE LET key == Head(items).key
             value == Head(items).value
         IN IF key \in DOMAIN st.cfg
            THEN LET r == StoreKey(p, st.cfg, key, value)
                 IN IF r.ok
                    THEN UpdateLoop(p, [st EXCEPT !.cfg = r.cfg], Tail(items))
                    ELSE [st EXCEPT !.cfg = r.cfg, !.raised = TRUE,
                                    !.failed = key]
            ELSE UpdateLoop(p, UnknownKey(st, key), Tail(items))

\* update_config(**config_dict), or the inline loop of the command loop: the
\* configuration afterwards, whether an exception was raised (and at which key),
\* and the keys warned about.
update_config(p, cfg, items) ==
    UpdateLoop(p, [cfg |-> cfg, raised |-> FALSE, failed |-> "", warned |-> <<>>],
               items)

(* ------------------------------------------------------------------ *)
(* Wire requests                                                       *)
(* ------------------------------------------------------------------ *)

Msg(role, content) == [role |-> role, content |-> content]

\* self.system_messages[self.current_config['language']] is a KeyError unless
\* the language is a key of the table.
LanguageKnown(p, cfg) ==
    cfg.language.t = "str" /\ cfg.language.s \in DOMAIN system_messages(p)

SystemMessage(p, cfg) == Msg("system", system_messages(p)[cfg.language.s])

\* The dictionary {k: current_config[k] for k in keys}.
Pick(cfg, keys) == [k \in keys |-> cfg[k]]

\* PerplexityChat.create_request_body
create_request_body(cfg, messages) ==
    [messages |-> <<SystemMessage("perplexity", cfg)>> \o messages,
     params |-> Pick(cfg,
                     {"model", "temperature", "top_p", "top_k",
                      "presence_penalty", "frequency_penalty",
                      "return_citations", "return_related_questions"}
                     \cup (IF cfg.max_tokens # VNone THEN {"max_tokens"} ELSE {})
                     \cup (IF Truthy(cfg.search_recency_filter)
                           THEN {"search_recency_filter"} ELSE {}))]

\* OpenAIChat.create_chat_params
create_chat_params_openai(cfg, messages) ==
    [messages |-> <<SystemMessage("openai", cfg)>> \o messages,
     params |-> Pick(cfg,
                     {"model", "temperature", "top_p", "presence_penalty",
                      "frequency_penalty", "stream"}
                     \cup (IF cfg.max_tokens # VNone THEN {"max_tokens"} ELSE {}))]

\* GroqChat.create_chat_params
create_chat_params_groq(cfg, messages) ==
    [messages |-> <<SystemMessage("groq", cfg)>> \o messages,
     params |-> Pick(cfg,
                     {"model", "temperature", "top_p", "stream"}
                     \cup (IF cfg.max_tokens # VNone THEN {"max_tokens"} ELSE {}))]

\* AnthropicChat.create_chat_params: the messages are the history itself, and
\* the system text is the 'system' entry of the configuration.
create_chat_params_anthropic(cfg, messages) ==
    [messages |-> messages,
     params |-> Pick(cfg, {"model", "temperature", "max_tokens", "system"})]

\* GeminiChat.create_request_data: one content, whose parts are the text (and
\* the image when there is one); the url names the model.
create_request_data(cfg, content, is_image) ==
    [contents |-> << [parts |-> IF is_image
                                THEN << [text |-> content], [inline_data |-> "jpeg"] >>
                                ELSE << [text |-> content] >>] >>,
     generationConfig |-> [temperature |-> cfg.temperature,
                           topK |-> cfg.top_k,
                           topP |-> cfg.top_p,
                           maxOutputTokens |-> cfg.max_tokens],
     model |-> cfg.model]

(* ------------------------------------------------------------------ *)
(* send_message                                                        *)
(* ------------------------------------------------------------------ *)

\* What the transport answers to one request (env):
\*   kind "dispatch_error": the call or raise_for_status raises; status is the
\*        HTTP status, 0 when there is no response at all;
\*   kind "body": a 2xx JSON body (or SDK object) of the given shape, "ok" or
\*        lacking a field, carrying the text `content`;
\*   kind "stream": the chunks of a streamed response; with `fails` the
\*        iterator raises once the chunks are consumed.
\* image_ok tells whether process_image can read the image of a Gemini call.

NoRequest == <<>>

\* A Send that starts the history over with the user's message.
AppendUser_Restarts(hist, message) == <<Msg("user", message)>>

\* A Send that appends the user's message twice.
AppendUser_Twice(hist, message) ==
    Append(Append(hist, Msg("user", message)), Msg("user", message))

\* self.conversation_history.append({"role": "user", "content": message})
AppendUser(hist, message) == Append(hist, Msg("user", message))

\* A Send that appends the answer twice.
AppendAssistant_Twice(hist, response_content) ==
    Append(Append(hist, Msg("assistant", response_content)),
           Msg("assistant", response_content))

\* A Send that returns the answer without appending it.
AppendAssistant_Omitted(hist, response_content) == hist

\* self.conversation_history.append({"role": "assistant", "content": ...})
AppendAssistant(hist, response_content) ==
    Append(hist, Msg("assistant", response_content))

\* The message object of a Perplexity body, result['choices'][0]['message']:
\* the provider sets its role to assistant; its content may be missing.
ProvidedMessage(env) ==
    IF env.shape = "no_text"
    THEN [role |-> "assistant"]
    ELSE Msg("assistant", env.content)

\* GeminiChat.send_message: the text sent is the system message and the
\* user's text (or the prompt of an image, with a default).
GeminiContent(cfg, message, has_image) ==
    IF has_image
    THEN (IF message # "" THEN message ELSE "Descreva esta imagem em detalhes")
    ELSE system_messages("gemini")[cfg.language.s] \o "\n\n" \o message

\* A Gemini Send that appends the text it sends, system message included.
GeminiUserEntry_Sent(message, content) == Msg("user", content)

\* GeminiChat.send_message: what is appended for the user is the message.
GeminiUserEntry(message, content) == Msg("user", message)

\* What one call does: the configuration and history it leaves, how it ends
\* ("ok": the normal return; "error": a dictionary with 'error' is returned;
\* "raised": an exception leaves send_message), the request it built, the
\* response text it printed, and the text it returns.
Outcome(cfg, hist, result, err, built, request, sink, returned) ==
    [cfg |-> cfg, hist |-> hist, result |-> result, err |-> err,
     built |-> built, request |-> request, sink |-> sink, returned |-> returned]

\* for chunk in stream: if chunk.choices[0].delta.content is not None: print
\* it and add it to response_content.  A chunk with no choices is an
\* IndexError.
RECURSIVE ConsumeStream(_, _, _)
ConsumeStream(chunks, response_content, sink) ==
    IF chunks = <<>>
    THEN [ok |-> TRUE, content |-> response_content, sink |-> sink]
    ELSE LET chunk == Head(chunks)
         IN IF chunk.kind = "no_choices"
            THEN [ok |-> FALSE, content |-> response_content, sink |-> sink]
            ELSE IF chunk.kind = "delta"
            THEN ConsumeStream(Tail(chunks), response_content \o chunk.text,
                               Append(sink, chunk.text))
            ELSE ConsumeStream(Tail(chunks), response_content, sink)

\* PerplexityChat.send_message.  Only requests.exceptions.RequestException is
\* caught: a KeyError of the request build or of the parse leaves the method.
\* The message object of the body is appended as it came, before its content
\* is read.
send_message_perplexity(cfg, hist, message, env) ==
    LET h1 == AppendUser(hist, message)
    IN IF ~LanguageKnown("perplexity", cfg)
       THEN Outcome(cfg, h1, "raised", "KeyError", FALSE, NoRequest, <<>>, "")
       ELSE LET body == create_request_body(cfg, h1)
            IN CASE env.kind = "dispatch_error" ->
                      Outcome(cfg, h1, "error", "request", TRUE, body, <<>>, "")
                 [] env.kind = "body" /\ env.shape \in {"no_list", "no_message"} ->
                      Outcome(cfg, h1, "raised", "KeyError", TRUE, body, <<>>, "")
                 [] env.kind = "body" /\ env.shape = "no_text" ->
                      Outcome(cfg, Append(h1, ProvidedMessage(env)), "raised",
                              "KeyError", TRUE, body, <<>>, "")
                 [] OTHER ->
                      Outcome(cfg, Append(h1, ProvidedMessage(env)), "ok",
                              "", TRUE, body, <<env.content>>, env.content)

\* AnthropicChat.send_message.  In the handler of the request's exception,
\* `response` is unbound when requests.post itself raised: the
\* UnboundLocalError is caught by the outer handler.
send_message_anthropic(cfg, hist, message, env) ==
    LET h1 == AppendUser(hist, message)
        params == create_chat_params_anthropic(cfg, h1)
    IN CASE env.kind = "dispatch_error" /\ env.status = 0 ->
              Outcome(cfg, h1, "error", "unexpected", TRUE, params, <<>>, "")
         [] env.kind = "dispatch_error" /\ env.status = 404 ->
              Outcome(cfg, h1, "error", "api_model_hint", TRUE, params, <<>>, "")
         [] env.kind = "dispatch_error" ->
              Outcome(cfg, h1, "error", "api", TRUE, params, <<>>, "")
         [] env.kind = "body" /\ env.shape # "ok" ->
              Outcome(cfg, h1, "error", "unexpected", TRUE, params, <<>>, "")
         [] OTHER ->
              Outcome(cfg, AppendAssistant(h1, env.content), "ok", "",
                      TRUE, params, <<env.content>>, env.content)

\* GeminiChat.send_message.  With an image the model is switched first and the
\* image processed; without one the system message is looked up.  Both come
\* before the user message is appended, and a failure of either is caught by
\* the handler at the end.
send_message_gemini(cfg, hist, message, has_image, env) ==
    LET cfg1 == IF has_image
                THEN [cfg EXCEPT !.model = VText(GEMINI_FLASH_8B)]
                ELSE cfg
    IN IF has_image /\ ~env.image_ok
       THEN Outcome(cfg1, hist, "error", "unexpected", FALSE, NoRequest, <<>>, "")
       ELSE IF ~has_image /\ ~LanguageKnown("gemini", cfg)
       THEN Outcome(cfg1, hist, "error", "unexpected", FALSE, NoRequest, <<>>, "")
       ELSE LET content == GeminiContent(cfg, message, has_image)
                h1 == Append(hist, GeminiUserEntry(message, content))
                data == create_request_data(cfg1, content, has_image)
            IN CASE env.kind = "dispatch_error" ->
                      Outcome(cfg1, h1, "error", "request", TRUE, data, <<>>, "")
                 [] env.kind = "body" /\ env.shape \in {"no_list", "no_parts"} ->
                      Outcome(cfg1, h1, "error", "no_response", TRUE, data, <<>>, "")
                 [] env.kind = "body" /\ env.shape = "no_message" ->
                      Outcome(cfg1, h1, "error", "unexpected", TRUE, data, <<>>, "")
                 [] env.kind = "body" /\ env.shape = "no_text" ->
                      Outcome(cfg1, AppendAssistant(h1, ""), "ok", "",
                              TRUE, data, <<"">>, "")
                 [] OTHER ->
                      Outcome(cfg1, AppendAssistant(h1, env.content), "ok",
                              "", TRUE, data, <<env.content>>, env.content)

\* GroqChat.send_message
send_message_groq(cfg, hist, message, env) ==
    LET h1 == AppendUser(hist, message)
    IN IF ~LanguageKnown("groq", cfg)
       THEN Outcome(cfg, h1, "error", "api", FALSE, NoRequest, <<>>, "")
       ELSE LET params == create_chat_params_groq(cfg, h1)
            IN IF env.kind = "dispatch_error"
               THEN Outcome(cfg, h1, "error", "api", TRUE, params, <<>>, "")
               ELSE IF Truthy(cfg.stream)
               THEN LET s == ConsumeStream(env.chunks, "", <<>>)
                    IN IF ~s.ok \/ env.fails
                       THEN Outcome(cfg, h1, "error", "stream", TRUE, params,
                                    s.sink, "")
                       ELSE Outcome(cfg, AppendAssistant(h1, s.content),
                                    "ok", "", TRUE, params, s.sink, s.content)
               ELSE IF env.shape # "ok"
               THEN Outcome(cfg, h1, "error", "unexpected", TRUE, params, <<>>, "")
               ELSE Outcome(cfg, AppendAssistant(h1, env.content), "ok",
                            "", TRUE, params, <<env.content>>, env.content)

\* OpenAIChat.send_message: one handler for every exception; the unary answer
\* is not printed here.
send_message_openai(cfg, hist, message, env) ==
    LET h1 == AppendUser(hist, message)
    IN IF ~LanguageKnown("openai", cfg)
       THEN Outcome(cfg, h1, "error", "request", FALSE, NoRequest, <<>>, "")
       ELSE LET params == create_chat_params_openai(cfg, h1)
            IN IF env.kind = "dispatch_error"
               THEN Outcome(cfg, h1, "error", "request", TRUE, params, <<>>, "")
               ELSE IF Truthy(cfg.stream)
               THEN LET s == ConsumeStream(env.chunks, "", <<>>)
                    IN IF ~s.ok \/ env.fails
                       THEN Outcome(cfg, h1, "error", "request", TRUE, params,
                                    s.sink, "")
                       ELSE Outcome(cfg, AppendAssistant(h1, s.content),
                                    "ok", "", TRUE, params, s.sink, s.content)
               ELSE IF env.shape # "ok"
               THEN Outcome(cfg, h1, "error", "request", TRUE, params, <<>>, "")
               ELSE Outcome(cfg, AppendAssistant(h1, env.content), "ok",
                            "", TRUE, params, <<>>, env.content)

send_message(p, cfg, hist, message, has_image, env) ==
    CASE p = "perplexity" -> send_message_perplexity(cfg, hist, message, env)
      [] p = "anthropic" -> send_message_anthropic(cfg, hist, message, env)
      [] p = "gemini" -> send_message_gemini(cfg, hist, message, has_image, env)
      [] p = "groq" -> send_message_groq(cfg, hist, message, env)
      [] p = "openai" -> send_message_openai(cfg, hist, message, env)

(* ------------------------------------------------------------------ *)
(* Inputs                                                              *)
(* ------------------------------------------------------------------ *)

SeqsUpTo(S, n) == UNION {[1..k -> S] : k \in 0..n}

\* The texts a user sends.
Messages == {"a", "b"}

\* The prompt typed for an image: it may be empty.
ImagePrompts == {"", "a"}

Env(kind, status, shape, content, chunks, fails, image_ok) ==
    [kind |-> kind, status |-> status, shape |-> shape, content |-> content,
     chunks |-> chunks, fails |-> fails, image_ok |-> image_ok]

NoEnv == Env("none", 0, "", "", <<>>, FALSE, TRUE)

\* process_image raises: no request is made.
NoImage == Env("none", 0, "", "", <<>>, FALSE, FALSE)

Statuses == {0, 404, 500}

DispatchErrors ==
    {Env("dispatch_error", st, "", "", <<>>, FALSE, TRUE) : st \in Statuses}

\* The shapes of a 2xx body: complete ("ok"), or without the list (choices,
\* content, candidates), without the message object of its first element,
\* without the parts of that object, or without the text itself.
BodyShapes(p) ==
    CASE p = "perplexity" -> {"ok", "no_list", "no_message", "no_text"}
      [] p = "anthropic" -> {"ok", "no_list", "no_text"}
      [] p = "gemini" -> {"ok", "no_list", "no_message", "no_parts", "no_text"}
      [] OTHER -> {"ok", "no_list"}

Contents == {"x"}

Bodies(p) ==
    {Env("body", 200, "ok", c, <<>>, FALSE, TRUE) : c \in Contents}
    \cup {Env("body", 200, sh, "", <<>>, FALSE, TRUE) : sh \in BodyShapes(p) \ {"ok"}}

Chunk(kind, text) == [kind |-> kind, text |-> text]

\* A chunk carries a text delta, no text (delta.content is None), or no choice.
Chunks == {Chunk("delta", "x"), Chunk("empty", ""), Chunk("no_choices", "")}

Streams ==
    {Env("stream", 200, "", "", cs, f, TRUE) :
        cs \in SeqsUpTo(Chunks, MaxChunks), f \in BOOLEAN}

\* The SDK returns a chunk iterator when the request asks for a stream and a
\* completion object otherwise.
Envs(p, cfg) ==
    DispatchErrors
    \cup (IF p \in {"groq", "openai"} /\ Truthy(cfg.stream) THEN Streams ELSE Bodies(p))

Item(key, value) == [key |-> key, value |-> value]

OtherModel(p) ==
    CASE p = "perplexity" -> "llama-3.1-sonar-huge-128k-online"
      [] p = "anthropic" -> "claude-3-haiku"
      [] p = "gemini" -> "gemini-1.5-flash"
      [] p = "groq" -> "gemma2-9b-it"
      [] p = "openai" -> "gpt-4o"

\* The items of the command line, key=value, both texts.
CommandItems(p) ==
    {Item("model", VText(m)) : m \in {OtherModel(p), "bogus"}}
    \cup {Item("temperature", VText(t)) : t \in {"0.5", "3.5", "abc"}}
    \cup {Item("max_tokens", VText(t)) : t \in {"100", "none", "NONE"}}
    \cup {Item("stream", VText("false"))}
    \cup {Item("language", VText("fr"))}
    \cup {Item("top_k", VText("none"))}
    \cup {Item("foo", VText("1"))}

\* A value only a direct call of update_config can pass.
CallItems == {Item("stream", VBool(FALSE))}

\* The classes with an update_config method; the other two are configured by
\* the command loop only.
HasUpdateConfig(p) == p \in {"groq", "anthropic", "gemini"}

ConfigItems(p) == CommandItems(p)

\* A dictionary holds a key once.
DistinctKeys(items) ==
    \A i, j \in 1..Len(items) : i # j => items[i].key # items[j].key

ConfigBatches(p) ==
    {b \in SeqsUpTo(ConfigItems(p), MaxBatch) : b # <<>> /\ DistinctKeys(b)}

\* The updates of a session that also sends: those that change what a Send does.
SessionItems(p) ==
    {Item("language", VText(t)) : t \in {"en", "fr"}}
    \cup (IF "stream" \in DOMAIN DefaultConfig(p)
          THEN {Item("stream", VText("false"))}
                \cup (IF HasUpdateConfig(p) THEN CallItems ELSE {})
          ELSE {})

SessionBatches(p) == {<<i>> : i \in SessionItems(p)}

(* ------------------------------------------------------------------ *)
(* Construction and the calls in flight                                *)
(* ------------------------------------------------------------------ *)

\* os.getenv('..._API_KEY'): None when the variable is not set, or its text.
Credentials == {VNone, VText(""), VText("sk")}

\* A constructor that keeps whatever the environment gave.
Constructed_Always(key) == TRUE

\* __init__: if not self.api_key: raise ValueError(...)
Constructed(key) == Truthy(key)

\* The threads that may call send_message on one session object.
Callers == {"t1", "t2"}

\* The position of a caller inside send_message: "idle" (not in the call),
\* "awaiting" (the user message is appended and the request is out) or
\* "streaming" (inside `for chunk in stream`); "exited" once its command
\* loop has ended.  The record keeps what the
\* call has done so far: where it appended the user message (at) and the
\* answer (answered_at), the chunks it consumed, the text it accumulated, the
\* deltas it printed and how it ended.
IdleCall ==
    [pc |-> "idle", message |-> "", hist_before |-> <<>>, at |-> 0,
     answered_at |-> 0, received |-> <<>>, raised |-> FALSE,
     response_content |-> "", sink |-> <<>>, result |-> "none",
     returned |-> ""]

(* ------------------------------------------------------------------ *)
(* The session                                                         *)
(* ------------------------------------------------------------------ *)

NoOutcome == Outcome(<<>>, <<>>, "none", "", FALSE, NoRequest, <<>>, "")

NoUpdate == [cfg |-> <<>>, raised |-> FALSE, failed |-> "", warned |-> <<>>]

\* `last` records the operation that led to the state: its name and inputs,
\* the configuration and history it started from, and what it returned.
\* pure_sends counts the successful Sends of a session that has seen no clear
\* and no failed Send; it is -1 once the session has seen one.
Last(op, items, upd, message, has_image, env, out) ==
    [op |-> op, cfg_before |-> current_config,
     hist_before |-> conversation_history,
     items |-> items, upd |-> upd,
     message |-> message, has_image |-> has_image, env |-> env, out |-> out]

Init ==
    /\ provider \in Providers
    /\ api_key \in Credentials
    /\ constructed = Constructed(api_key)
    /\ calls = [c \in Callers |-> IdleCall]
    /\ current_config = DefaultConfig(provider)
    /\ conversation_history = <<>>
    /\ last = [op |-> "init", cfg_before |-> DefaultConfig(provider),
               hist_before |-> <<>>, items |-> <<>>, upd |-> NoUpdate,
               message |-> "", has_image |-> FALSE, env |-> NoEnv,
               out |-> NoOutcome]
    /\ pure_sends = 0

DoSend(message, has_image, env) ==
    LET out == send_message(provider, current_config, conversation_history,
                            message, has_image, env)
    IN /\ constructed
       /\ Len(conversation_history) + 2 <= MaxHist
       /\ current_config' = out.cfg
       /\ conversation_history' = out.hist
       /\ last' = Last("send", <<>>, NoUpdate, message, has_image, env, out)
       /\ pure_sends' = IF out.result = "ok" /\ pure_sends >= 0
                        THEN pure_sends + 1
                        ELSE -1
       /\ UNCHANGED <<provider, api_key, constructed, calls>>

\* chat.send_message(user_input)
Send ==
    \E message \in Messages : \E env \in Envs(provider, current_config) :
        DoSend(message, FALSE, env)

\* chat.send_message(prompt, image_path), the 'imagem' command of the Gemini loop
SendImage ==
    /\ provider = "gemini"
    /\ \E message \in ImagePrompts :
         \E env \in Envs(provider, current_config) \cup {NoImage} :
           DoSend(message, TRUE, env)

\* A clear that keeps the last entry of the history.
Clear_KeepsLast ==
    /\ constructed
    /\ conversation_history' =
          IF conversation_history = <<>>
          THEN <<>>
          ELSE <<conversation_history[Len(conversation_history)]>>
    /\ last' = Last("clear", <<>>, NoUpdate, "", FALSE, NoEnv, NoOutcome)
    /\ pure_sends' = -1
    /\ UNCHANGED <<provider, api_key, constructed, calls, current_config>>

\* clear_history / clear_conversation / the 'limpar' command
Clear ==
    /\ constructed
    /\ conversation_history' = <<>>
    /\ last' = Last("clear", <<>>, NoUpdate, "", FALSE, NoEnv, NoOutcome)
    /\ pure_sends' = -1
    /\ UNCHANGED <<provider, api_key, constructed, calls, current_config>>

\* save_conversation: the file is written, the session is not changed.
Save ==
    /\ constructed
    /\ last' = Last("save", <<>>, NoUpdate, "", FALSE, NoEnv, NoOutcome)
    /\ UNCHANGED <<provider, api_key, constructed, calls, current_config,
                   conversation_history, pure_sends>>

\* The 'config key=value ...' command, or a call of update_config.
DoUpdate(items) ==
    LET upd == update_config(provider, current_config, items)
    IN /\ constructed
       /\ current_config' = upd.cfg
       /\ last' = Last("update", items, upd, "", FALSE, NoEnv, NoOutcome)
       /\ UNCHANGED <<provider, api_key, constructed, calls,
                      conversation_history, pure_sends>>

\* A session that also sends: any number of one-item updates.
SessionUpdate == \E items \in SessionBatches(provider) : DoUpdate(items)

\* A session that only configures.  Its first command is any batch of
\* ConfigBatches; any number of one-item commands follow.
UpdateConfig ==
    /\ last.op = "init"
    /\ \E items \in ConfigBatches(provider) : DoUpdate(items)

UpdateOne == \E item \in ConfigItems(provider) : DoUpdate(<<item>>)

Next == Send \/ SendImage \/ Clear \/ Save \/ SessionUpdate

Spec == Init /\ [][Next]_vars

NextConfig == UpdateConfig \/ UpdateOne

SpecConfig == Init /\ [][NextConfig]_vars

(* ------------------------------------------------------------------ *)
(* send_message of GroqChat and OpenAIChat, step by step               *)
(* ------------------------------------------------------------------ *)

StreamingProviders == {"groq", "openai"}

\* if self.current_config['stream']: the chunks are iterated; else the one
\* message of the completion is read.
ResponsePath(cfg) == IF Truthy(cfg.stream) THEN "stream" ELSE "unary"

\* The chunks the iterator may yield: a text delta, the closing chunk (its
\* finish_reason is set and its delta.content is None), or a chunk whose
\* choices list is empty.
StreamChunks ==
    {Chunk("delta", "x"), Chunk("delta", "y"), Chunk("finish", ""),
     Chunk("no_choices", "")}

\* A loop body that accumulates the delta without printing it.
ConsumeChunk_Unprinted(chunk, response_content, sink) ==
    IF chunk.kind = "no_choices"
    THEN [ok |-> FALSE, content |-> response_content, sink |-> sink]
    ELSE IF chunk.kind = "delta"
    THEN [ok |-> TRUE, content |-> response_content \o chunk.text, sink |-> sink]
    ELSE [ok |-> TRUE, content |-> response_content, sink |-> sink]

\* A loop body that keeps the last delta instead of accumulating.
ConsumeChunk_KeepsLast(chunk, response_content, sink) ==
    IF chunk.kind = "no_choices"
    THEN [ok |-> FALSE, content |-> response_content, sink |-> sink]
    ELSE IF chunk.kind = "delta"
    THEN [ok |-> TRUE, content |-> chunk.text, sink |-> Append(sink, chunk.text)]
    ELSE [ok |-> TRUE, content |-> response_content, sink |-> sink]

\* One turn of `for chunk in stream`: chunk.choices[0] is an IndexError when
\* there is no choice; a content that is not None is printed, then added to
\* response_content.
ConsumeChunk(chunk, response_content, sink) ==
    IF chunk.kind = "no_choices"
    THEN [ok |-> FALSE, content |-> response_content, sink |-> sink]
    ELSE IF chunk.kind = "delta"
    THEN [ok |-> TRUE, content |-> response_content \o chunk.text,
          sink |-> Append(sink, chunk.text)]
    ELSE [ok |-> TRUE, content |-> response_content, sink |-> sink]

\* A handler that keeps the partial text as the assistant's message.
AfterStreamError_KeepsPartial(hist, response_content) ==
    AppendAssistant(hist, response_content)

\* The handler of an exception raised inside the loop: the error is printed
\* and returned, nothing is appended.
AfterStreamError(hist, response_content) == hist

\* The call ends: it returns a dictionary with 'error'.
ReturnError(call) == [call EXCEPT !.pc = "idle", !.result = "error"]

\* The first lines of send_message: the user message is appended and the
\* parameters are built; then the request goes out.  With a language that is
\* no key of system_messages the build raises and the call returns the error.
BeginCall(c, message) ==
    LET h1 == AppendUser(conversation_history, message)
        call == [IdleCall EXCEPT !.message = message,
                                 !.hist_before = conversation_history,
                                 !.at = Len(h1)]
    IN /\ constructed
       /\ provider \in StreamingProviders
       /\ calls[c].pc = "idle"
       /\ Len(conversation_history) + 2 <= MaxHist
       /\ conversation_history' = h1
       /\ calls' = [calls EXCEPT ![c] =
                       IF LanguageKnown(provider, current_config)
                       THEN [call EXCEPT !.pc = "awaiting"]
                       ELSE ReturnError(call)]
       /\ UNCHANGED <<provider, api_key, constructed, current_config, last,
                      pure_sends>>

\* client.chat.completions.create(...) raises.
DispatchFails(c) ==
    /\ calls[c].pc = "awaiting"
    /\ calls' = [calls EXCEPT ![c] = ReturnError(calls[c])]
    /\ UNCHANGED <<provider, api_key, constructed, current_config,
                   conversation_history, last, pure_sends>>

\* create(...) returns the chunk iterator: if self.current_config['stream'].
StreamOpens(c) ==
    /\ calls[c].pc = "awaiting"
    /\ Truthy(current_config.stream)
    /\ calls' = [calls EXCEPT ![c].pc = "streaming"]
    /\ UNCHANGED <<provider, api_key, constructed, current_config,
                   conversation_history, last, pure_sends>>

\* The iterator yields a chunk and the loop body runs on it.
NextChunk(c) ==
    /\ calls[c].pc = "streaming"
    /\ Len(calls[c].received) < MaxStream
    /\ \E chunk \in StreamChunks :
         LET call == [calls[c] EXCEPT !.received = Append(@, chunk)]
             r == ConsumeChunk(chunk, call.response_content, call.sink)
         IN IF r.ok
            THEN /\ calls' = [calls EXCEPT ![c] =
                                [call EXCEPT !.response_content = r.content,
                                             !.sink = r.sink]]
                 /\ UNCHANGED conversation_history
            ELSE /\ calls' = [calls EXCEPT ![c] = ReturnError(call)]
                 /\ conversation_history' =
                        AfterStreamError(conversation_history,
                                         call.response_content)
    /\ UNCHANGED <<provider, api_key, constructed, current_config, last,
                   pure_sends>>

\* The iterator raises (the connection breaks).
StreamRaises(c) ==
    /\ calls[c].pc = "streaming"
    /\ calls' = [calls EXCEPT ![c] =
                    ReturnError([calls[c] EXCEPT !.raised = TRUE])]
    /\ conversation_history' =
           AfterStreamError(conversation_history, calls[c].response_content)
    /\ UNCHANGED <<provider, api_key, constructed, current_config, last,
                   pure_sends>>

\* The iterator is exhausted: the loop ends, the accumulated text is
\* appended as the assistant's message and returned.
StreamEnds(c) ==
    LET h2 == AppendAssistant(conversation_history, calls[c].response_content)
    IN /\ calls[c].pc = "streaming"
       /\ conversation_history' = h2
       /\ calls' = [calls EXCEPT ![c] =
                       [calls[c] EXCEPT !.pc = "idle", !.result = "ok",
                                        !.answered_at = Len(h2),
                                        !.returned = calls[c].response_content]]
       /\ UNCHANGED <<provider, api_key, constructed, current_config, last,
                      pure_sends>>

\* One caller, its streamed call followed chunk by chunk.
StreamBegin == \E message \in Messages : BeginCall("t1", message)

StreamDispatchFails == DispatchFails("t1")

StreamStarts == StreamOpens("t1")

StreamChunk == NextChunk("t1")

StreamBreaks == StreamRaises("t1")

StreamDone == StreamEnds("t1")

NextStream ==
    \/ StreamBegin
    \/ StreamDispatchFails
    \/ StreamStarts
    \/ StreamChunk
    \/ StreamBreaks
    \/ StreamDone

SpecStream == Init /\ [][NextStream]_vars

\* Ctrl-C while the call waits for the answer or consumes the stream.
\* KeyboardInterrupt is no Exception: no handler of send_message catches it,
\* so nothing more is printed or appended.  The handler of the command loop
\* prints "Encerrando o chat..." and breaks: the loop is left ("exited") and
\* no further input is read.
KeyboardInterrupt(c) ==
    /\ calls[c].pc \in {"awaiting", "streaming"}
    /\ calls' = [calls EXCEPT ![c] =
                    [calls[c] EXCEPT !.pc = "exited", !.result = "interrupted"]]
    /\ UNCHANGED <<provider, api_key, constructed, current_config,
                   conversation_history, last, pure_sends>>

StreamInterrupt == KeyboardInterrupt("t1")

NextInterrupt == NextStream \/ StreamInterrupt

SpecInterrupt == Init /\ [][NextInterrupt]_vars

\* The request of a call in flight is answered and the call runs to its end:
\* what send_message does after the user message, on the answer env.  The
\* entries it appends go after whatever the history holds by then.
Complete(c, env) ==
    LET call == calls[c]
        out == send_message(provider, current_config, <<>>, call.message,
                            FALSE, env)
        h2 == conversation_history \o Tail(out.hist)
    IN /\ call.pc = "awaiting"
       /\ conversation_history' = h2
       /\ calls' = [calls EXCEPT ![c] =
                       [call EXCEPT !.pc = "idle",
                                    !.result = out.result,
                                    !.sink = out.sink,
                                    !.returned = out.returned,
                                    !.answered_at =
                                        IF out.result = "ok" THEN Len(h2) ELSE 0]]
       /\ UNCHANGED <<provider, api_key, constructed, current_config, last,
                      pure_sends>>

\* Two threads that share one session object.
ConcurrentBegin ==
    \E c \in Callers : \E message \in Messages : BeginCall(c, message)

ConcurrentComplete ==
    \E c \in Callers : \E env \in Envs(provider, current_config) :
        Complete(c, env)

NextConcurrent == ConcurrentBegin \/ ConcurrentComplete

SpecConcurrent == Init /\ [][NextConcurrent]_vars

\* A session whose updates set or unset the optional fields of the request,
\* and which sends.
PayloadItems(p) ==
    {Item("max_tokens", VText(t)) : t \in {"100", "none"}}
    \cup {Item("top_k", VText("none"))}
    \cup {Item("search_recency_filter", VText("none"))}

PayloadUpdate == \E item \in PayloadItems(provider) : DoUpdate(<<item>>)

NextPayload == PayloadUpdate \/ Send

SpecPayload == Init /\ [][NextPayload]_vars

(* ------------------------------------------------------------------ *)
(* Properties of send_message and the history                          *)
(* ------------------------------------------------------------------ *)

SendFailed == last.op = "send" /\ last.out.result # "ok"

SendSucceeded == last.op = "send" /\ last.out.result = "ok"

IsPrefix(s, t) == Len(s) <= Len(t) /\ SubSeq(t, 1, Len(s)) = s

\* The text deltas of a chunk sequence, joined in order.
RECURSIVE DeltaText(_)
DeltaText(chunks) ==
    IF chunks = <<>> THEN ""
    ELSE (IF Head(chunks).kind = "delta" THEN Head(chunks).text ELSE "")
         \o DeltaText(Tail(chunks))

\* The text the provider gave in its answer.
ProviderText(env) ==
    CASE env.kind = "stream" -> DeltaText(env.chunks)
      [] env.kind = "body" /\ env.shape = "ok" -> env.content
      [] OTHER -> ""

\* C1: every send_message that fails leaves the history it started from with
\* exactly one entry appended, the user's message, and no assistant entry.
C1_FailedSendAppendsUserOnly ==
    SendFailed =>
        conversation_history =
            Append(last.hist_before, Msg("user", last.message))

\* C2: every successful send_message appends exactly two entries, the user's
\* message and then one assistant entry holding the text the provider gave.
C2_SuccessAppendsUserThenAssistant ==
    SendSucceeded =>
        /\ conversation_history =
               last.hist_before
               \o << Msg("user", last.message),
                     Msg("assistant", ProviderText(last.env)) >>
        /\ last.out.returned = ProviderText(last.env)

\* A second successful Send, here over a stream that carried a text delta.
C2_Witness ==
    /\ SendSucceeded
    /\ last.env.kind = "stream"
    /\ last.out.returned = "x"
    /\ Len(last.hist_before) = 2
    /\ Len(conversation_history) = 4

\* C3 as written: after N >= 1 successful Sends on a fresh session (no clear,
\* no failed Send) the history has 1 + 2N entries.
C3_OnePlusTwoN ==
    pure_sends >= 1 => Len(conversation_history) = 1 + 2 * pure_sends

\* C3 amended: after N successful Sends on a fresh session (no clear, no
\* failed Send) the history has exactly 2N entries, a user entry and an
\* assistant entry by turns.
C3_TwoN ==
    pure_sends >= 0 =>
        /\ Len(conversation_history) = 2 * pure_sends
        /\ \A i \in 1..Len(conversation_history) :
             conversation_history[i].role =
                 IF i % 2 = 1 THEN "user" ELSE "assistant"

C3_Witness == pure_sends = 2 /\ Len(conversation_history) = 4

\* How the messages of a wire request are read.  The chat-completion requests
\* carry a list of messages.  The Anthropic request carries the system text
\* beside the list: it is read as the first message.  The Gemini request
\* carries texts: a text made of a system message, a blank line and a user
\* text is read as those two messages.
WireMessages(p, request) ==
    CASE p = "anthropic" ->
           <<Msg("system", request.params.system.s)>> \o request.messages
      [] p = "gemini" ->
           LET text == request.contents[1].parts[1].text
               read == {<<l, m>> \in {"pt-br", "en"} \X (Messages \cup ImagePrompts) :
                          text = system_messages(p)[l] \o "\n\n" \o m}
           IN IF read = {}
              THEN <<Msg("user", text)>>
              ELSE LET r == CHOOSE r \in read : TRUE
                   IN <<Msg("system", system_messages(p)[r[1]]), Msg("user", r[2])>>
      [] OTHER -> request.messages

\* C4: the request built for a Send carries the system message of the current
\* language first, then every entry of the history (the new user message
\* included) in order.
C4_RequestIsSystemThenHistory ==
    (/\ last.op = "send"
     /\ ~last.has_image
     /\ last.out.built
     /\ LanguageKnown(provider, last.cfg_before)) =>
        WireMessages(provider, last.out.request) =
            <<Msg("system",
                  system_messages(provider)[last.cfg_before.language.s])>>
            \o Append(last.hist_before, Msg("user", last.message))

UserTexts == Messages \cup ImagePrompts

\* C5: the history never holds a system message: its entries are user and
\* assistant entries, a user entry holds a text the user typed and nothing
\* else, and a Send leaves the entries it found as they were, adding the
\* user's message as typed.
C5_NoSystemMessageInHistory ==
    /\ \A i \in 1..Len(conversation_history) :
         /\ conversation_history[i].role \in {"user", "assistant"}
         /\ conversation_history[i].role = "user" =>
                conversation_history[i].content \in UserTexts
    /\ last.op = "send" =>
         /\ IsPrefix(last.hist_before, conversation_history)
         /\ Len(conversation_history) > Len(last.hist_before) =>
                conversation_history[Len(last.hist_before) + 1] =
                    Msg("user", last.message)

\* A Gemini Send whose request text began with the system message, after an
\* earlier exchange.
C5_Witness ==
    /\ provider = "gemini"
    /\ SendSucceeded
    /\ ~last.has_image
    /\ last.out.request.contents[1].parts[1].text =
           system_messages("gemini")["pt-br"] \o "\n\n" \o last.message
    /\ Len(conversation_history) = 4

(* ------------------------------------------------------------------ *)
(* Properties of the config update                                     *)
(* ------------------------------------------------------------------ *)

KnownItems(cfg, items) == SelectSeq(items, LAMBDA it : it.key \in DOMAIN cfg)

\* C6: the keys of current_config are those of construction, whatever the
\* updates; an unknown key stores nothing and raises nothing, and the other
\* keys of its batch are processed as if it were not there.
C6_KeySetInvariant ==
    /\ DOMAIN current_config = DOMAIN DefaultConfig(provider)
    /\ last.op = "update" =>
         LET known == KnownItems(last.cfg_before, last.items)
             alone == update_config(provider, last.cfg_before, known)
         IN /\ last.upd.cfg = alone.cfg
            /\ last.upd.raised = alone.raised
            /\ last.upd.failed = alone.failed
            /\ known = <<>> =>
                 ~last.upd.raised /\ current_config = last.cfg_before

\* A batch whose unknown key comes first and whose second key is stored.
C6_Witness ==
    /\ last.op = "update"
    /\ Len(last.items) = 2
    /\ last.items[1].key = "foo"
    /\ last.items[2].key = "temperature"
    /\ ~last.upd.raised
    /\ current_config.temperature # last.cfg_before.temperature

\* The widest interval a provider's program declares for temperature, in
\* hundredths: "Temperature (0-2)" in the settings prompt of the Perplexity
\* and OpenAI programs, "temperature (0.0 a 1.0)" in the help of the others.
DeclaredMaxTemperature(p) ==
    IF p \in {"perplexity", "openai"} THEN 200 ELSE 100

TemperatureInBounds(v) ==
    /\ PyFloat(v).ok
    /\ 0 <= PyFloat(v).n
    /\ PyFloat(v).n <= DeclaredMaxTemperature(provider)

\* C7: a temperature outside the declared interval is rejected and the
\* previous value kept, so the temperature is always within the interval.
C7_TemperatureWithinBounds ==
    /\ TemperatureInBounds(current_config.temperature)
    /\ (/\ last.op = "update"
        /\ Len(last.items) = 1
        /\ last.items[1].key = "temperature"
        /\ ~TemperatureInBounds(last.items[1].value)) =>
           /\ last.upd.raised
           /\ current_config.temperature = last.cfg_before.temperature

\* C8: the model of the configuration is always one of available_models.
C8_ModelIsAvailable ==
    /\ current_config.model.t = "str"
    /\ current_config.model.s \in available_models(provider)

\* The update accepts the item when it is given alone / refuses it.
Accepts(p, cfg, it) ==
    it.key \in DOMAIN cfg /\ StoreKey(p, cfg, it.key, it.value).ok

Refuses(p, cfg, it) ==
    it.key \in DOMAIN cfg /\ ~StoreKey(p, cfg, it.key, it.value).ok

\* C9: of one valid and one invalid item in one update, in either order, the
\* valid one is applied and the invalid one reported.
C9_ValidAppliedInvalidReported ==
    (last.op = "update" /\ Len(last.items) = 2) =>
        \A i \in {1, 2} :
            LET valid == last.items[i]
                invalid == last.items[3 - i]
            IN (/\ Accepts(provider, last.cfg_before, valid)
                /\ Refuses(provider, last.cfg_before, invalid)) =>
                   /\ current_config[valid.key] =
                          StoreKey(provider, last.cfg_before, valid.key,
                                   valid.value).cfg[valid.key]
                   /\ last.upd.raised
                   /\ last.upd.failed = invalid.key

\* C10: after an update with a valid key and a text, the configuration holds
\* the value of the key's kind: a number for temperature and max_tokens, a
\* boolean for stream.
C10_ReadBackCoerced ==
    (/\ last.op = "update"
     /\ Len(last.items) = 1
     /\ last.items[1].key \in DOMAIN last.cfg_before
     /\ last.items[1].value.t = "str"
     /\ ~last.upd.raised) =>
        LET key == last.items[1].key
            text == last.items[1].value.s
        IN /\ (key = "temperature" /\ text = "0.5") =>
                  current_config[key] = VFloat(50)
           /\ (key = "max_tokens" /\ text = "100") =>
                  current_config[key] = VInt(100)
           /\ (key = "stream" /\ text = "false") =>
                  current_config[key] = VBool(FALSE)

\* C11: when an update rejects the value given for a key (the conversion
\* fails, the number is out of range, the model is unknown), the key holds
\* afterwards what it held before the update.
C11_RejectedKeyUnchanged ==
    (last.op = "update" /\ last.upd.raised) =>
        current_config[last.upd.failed] = last.cfg_before[last.upd.failed]

\* An update whose value for temperature does not convert, one whose value
\* is out of range, or one whose model is unknown, has been refused.
C11_Witness ==
    /\ last.op = "update"
    /\ last.upd.raised
    /\ \E i \in 1..Len(last.items) :
         /\ last.items[i].key = last.upd.failed
         /\ last.items[i].value \in
               {VText("abc"), VText("3.5"), VText("bogus")}
         /\ current_config[last.upd.failed] # last.items[i].value

\* C12: an update of max_tokens with the text "none", in any letter case,
\* leaves max_tokens unset (None) and raises no error.
C12_NoneUnsetsMaxTokens ==
    (/\ last.op = "update"
     /\ Len(last.items) = 1
     /\ last.items[1].key = "max_tokens"
     /\ last.items[1].value.t = "str"
     /\ PyLower(last.items[1].value.s) = "none") =>
        ~last.upd.raised /\ current_config.max_tokens = VNone

(* ------------------------------------------------------------------ *)
(* Properties of the request payload                                   *)
(* ------------------------------------------------------------------ *)

\* The parameters of a request other than its messages.
PayloadFields(p, request) ==
    IF p = "gemini" THEN request.generationConfig ELSE request.params

\* C13: no field of a request built by a Send holds null (None) or the text
\* "none": a configuration field that is unset is absent from the payload.
C13_UnsetFieldsAbsent ==
    (last.op = "send" /\ last.out.built) =>
        LET fields == PayloadFields(provider, last.out.request)
        IN \A k \in DOMAIN fields :
              /\ fields[k] # VNone
              /\ ~(fields[k].t = "str" /\ PyLower(fields[k].s) = "none")

(* ------------------------------------------------------------------ *)
(* Properties of the streamed answer                                   *)
(* ------------------------------------------------------------------ *)

\* The texts of the delta chunks of a sequence, in order.
RECURSIVE DeltaSeq(_)
DeltaSeq(chunks) ==
    IF chunks = <<>> THEN <<>>
    ELSE (IF Head(chunks).kind = "delta" THEN <<Head(chunks).text>> ELSE <<>>)
         \o DeltaSeq(Tail(chunks))

RECURSIVE Concat(_)
Concat(texts) ==
    IF texts = <<>> THEN "" ELSE Head(texts) \o Concat(Tail(texts))

\* The call of t1 has ended.
CallEnded == calls["t1"].pc = "idle" /\ calls["t1"].result # "none"

\* The call that was followed step by step did what send_message does on the
\* stream of the chunks it consumed.
StepwiseAgreesWithSendMessage ==
    CallEnded =>
        LET call == calls["t1"]
            out == send_message(provider, current_config, call.hist_before,
                                call.message, FALSE,
                                Env("stream", 200, "", "", call.received,
                                    call.raised, TRUE))
        IN \/ call.received = <<>> /\ call.result = "error"
           \/ /\ out.hist = conversation_history
              /\ out.result = call.result
              /\ out.sink = call.sink
              /\ out.returned = call.returned

\* C14: in a streamed Send every text delta is printed once, in the order of
\* arrival and before the next chunk is taken, and the assistant content
\* stored and returned is the concatenation of the printed deltas.
C14_DeltasForwardedInOrder ==
    LET call == calls["t1"]
    IN /\ call.sink = DeltaSeq(call.received)
       /\ call.response_content = Concat(call.sink)
       /\ call.result = "ok" =>
            /\ call.returned = Concat(call.sink)
            /\ conversation_history[call.answered_at] =
                  Msg("assistant", Concat(call.sink))

\* A streamed Send has ended well after two different deltas.
C14_Witness ==
    /\ CallEnded
    /\ calls["t1"].result = "ok"
    /\ calls["t1"].sink = <<"y", "x">>
    /\ calls["t1"].returned = "yx"

\* The stream carried its closing chunk.
Terminated(chunks) == \E i \in 1..Len(chunks) : chunks[i].kind = "finish"

\* C15: a streamed Send whose chunk sequence ends without the closing chunk
\* fails: it returns an error and appends no assistant message.
C15_TruncatedStreamFails ==
    (CallEnded /\ ~Terminated(calls["t1"].received)) =>
        /\ calls["t1"].result = "error"
        /\ conversation_history =
              Append(calls["t1"].hist_before,
                     Msg("user", calls["t1"].message))

\* C16: the history left and the content returned by a streamed Send that
\* succeeds are those of the same Send with stream off whose body carries the
\* concatenated deltas as its content.
C16_StreamedEqualsUnary ==
    (CallEnded /\ calls["t1"].result = "ok") =>
        LET call == calls["t1"]
            unary == send_message(provider,
                                  [current_config EXCEPT !.stream = VBool(FALSE)],
                                  call.hist_before, call.message, FALSE,
                                  Env("body", 200, "ok",
                                      DeltaText(call.received), <<>>, FALSE,
                                      TRUE))
        IN /\ unary.result = "ok"
           /\ unary.hist = conversation_history
           /\ unary.returned = call.returned

\* A streamed Send of two deltas has succeeded on a history that already
\* holds an exchange.
C16_Witness ==
    /\ CallEnded
    /\ calls["t1"].result = "ok"
    /\ calls["t1"].returned = "xy"
    /\ Len(calls["t1"].hist_before) = 2
    /\ Len(conversation_history) = 4

\* C17: a streamed Send that fails after deltas were printed returns an
\* error, leaves printed exactly the deltas that came before the failure,
\* and leaves in the history the user message and no assistant message.
C17_FailureKeepsForwardedDeltas ==
    (/\ CallEnded
     /\ calls["t1"].result # "ok"
     /\ calls["t1"].sink # <<>>) =>
        /\ calls["t1"].result = "error"
        /\ calls["t1"].returned = ""
        /\ calls["t1"].sink = DeltaSeq(calls["t1"].received)
        /\ conversation_history =
              Append(calls["t1"].hist_before,
                     Msg("user", calls["t1"].message))

\* A streamed Send has failed on a chunk without choices after two deltas.
C17_Witness ==
    /\ CallEnded
    /\ calls["t1"].result = "error"
    /\ calls["t1"].sink = <<"x", "y">>
    /\ Len(calls["t1"].received) = 3
    /\ calls["t1"].received[3].kind = "no_choices"

(* ------------------------------------------------------------------ *)
(* Properties of concurrent calls                                      *)
(* ------------------------------------------------------------------ *)

InFlight(c) == calls[c].pc # "idle"

\* C18: a send_message started while another one is in flight on the same
\* object is rejected, so two calls are never in flight together, and the
\* assistant entry of a call directly follows that call's user entry.
C18_SendsNeverInterleave ==
    /\ \A c, d \in Callers : (InFlight(c) /\ InFlight(d)) => c = d
    /\ \A c \in Callers :
          calls[c].result = "ok" => calls[c].answered_at = calls[c].at + 1

(* ------------------------------------------------------------------ *)
(* Properties of construction and of the errors of send_message        *)
(* ------------------------------------------------------------------ *)

\* C19: without a credential in the environment the construction raises and
\* there is no session: nothing is ever sent or reported for it; every
\* request that is dispatched belongs to a session holding a credential that
\* is not empty.
C19_CredentialAtConstruction ==
    /\ constructed = Truthy(api_key)
    /\ ~Truthy(api_key) =>
          /\ last.op = "init"
          /\ conversation_history = <<>>
          /\ \A c \in Callers : calls[c] = IdleCall
    /\ (last.op = "send" /\ last.out.built) =>
          api_key.t = "str" /\ api_key.s # ""

\* The environment holds no credential, or an empty one, and the
\* construction has raised.
C19_Witness ==
    /\ api_key \in {VNone, VText("")}
    /\ ~constructed
    /\ last.op = "init"

\* C20: every failure of send_message is returned to the caller as a result
\* carrying 'error'; no exception leaves send_message.
C20_FailuresReturnedAsValues ==
    SendFailed => last.out.result = "error"

\* The bodies with a success status that lack a field the parse reads: no
\* choices or message for Perplexity, no content or text for Anthropic, no
\* candidates, content or parts for Gemini.
MalformedShapes(p) ==
    CASE p = "perplexity" -> {"no_list", "no_message", "no_text"}
      [] p = "anthropic" -> {"no_list", "no_text"}
      [] p = "gemini" -> {"no_list", "no_message", "no_parts"}
      [] OTHER -> {}

\* C21: a body with a success status that lacks the expected fields makes
\* send_message return an error, and no assistant message is appended.
C21_MalformedBodyIsAnError ==
    (/\ last.op = "send"
     /\ last.out.built
     /\ last.env.kind = "body"
     /\ last.env.shape \in MalformedShapes(provider)) =>
        /\ last.out.result = "error"
        /\ conversation_history =
              Append(last.hist_before, Msg("user", last.message))

\* C22: send_message, with or without an image, the clear and the save leave
\* every key of current_config as it was.
C22_ConfigChangesOnlyByUpdate ==
    last.op \in {"send", "clear", "save"} =>
        current_config = last.cfg_before

(* ------------------------------------------------------------------ *)
(* Properties of the interrupt                                         *)
(* ------------------------------------------------------------------ *)

\* C23: a KeyboardInterrupt during a Send stops the printing of chunks,
\* appends no assistant message for the turn, and leaves the session idle:
\* the command loop goes on and takes the next input.
C23_InterruptReturnsToIdle ==
    calls["t1"].result = "interrupted" =>
        /\ calls["t1"].sink = DeltaSeq(calls["t1"].received)
        /\ conversation_history =
              Append(calls["t1"].hist_before,
                     Msg("user", calls["t1"].message))
        /\ calls["t1"].pc = "idle"

(* ------------------------------------------------------------------ *)
(* Properties of the stream setting and of the language                *)
(* ------------------------------------------------------------------ *)

\* What a value given for stream asks for: the booleans, and the texts
\* true/false of the command line in any letter case.
AsksStream(v) ==
    CASE v.t = "bool" -> IF v.n = 1 THEN "stream" ELSE "unary"
      [] v.t = "str" /\ PyLower(v.s) = "true" -> "stream"
      [] v.t = "str" /\ PyLower(v.s) = "false" -> "unary"
      [] OTHER -> "neither"

\* C24: after an update that sets stream to false the next Send reads one
\* complete message, and after one that sets it to true it iterates the
\* chunks.
C24_StreamSettingSelectsPath ==
    (/\ last.op = "update"
     /\ provider \in StreamingProviders
     /\ Len(last.items) = 1
     /\ last.items[1].key = "stream"
     /\ ~last.upd.raised
     /\ AsksStream(last.items[1].value) # "neither") =>
        ResponsePath(current_config) = AsksStream(last.items[1].value)

\* C25: in a streamed Send a chunk that carries no text (no delta content,
\* or no choices at all) prints nothing, leaves the accumulated text as it
\* was and does not fail the Send; the content is the concatenation of the
\* chunks that carry text.
C25_TextlessChunksTolerated ==
    LET call == calls["t1"]
        n == Len(call.received)
    IN /\ call.sink = DeltaSeq(call.received)
       /\ call.response_content = DeltaText(call.received)
       /\ (n > 0 /\ call.received[n].kind # "delta") =>
             ~(call.pc = "idle" /\ call.result = "error" /\ ~call.raised)

(* ------------------------------------------------------------------ *)
(* Properties of the shape of the history                              *)
(* ------------------------------------------------------------------ *)

\* C26: every send_message, successful or failed, leaves the history it
\* started from as a prefix of the history: entries are only added at the
\* end and none is changed.
C26_HistoryGrowsAtItsEnd ==
    last.op = "send" => IsPrefix(last.hist_before, conversation_history)

\* A Send has failed and another has succeeded on a history that held an
\* exchange.
C26_Witness ==
    /\ last.op = "send"
    /\ Len(last.hist_before) = 2
    /\ Len(conversation_history) \in {3, 4}
    /\ SubSeq(conversation_history, 1, 2) = last.hist_before

Roles == [i \in 1..Len(conversation_history) |-> conversation_history[i].role]

CountRole(role) == Cardinality({i \in DOMAIN Roles : Roles[i] = role})

\* C27: the history has at most as many assistant entries as user entries,
\* its first entry is a user entry, and every assistant entry comes right
\* after a user entry.
C27_RoleStructure ==
    /\ CountRole("assistant") <= CountRole("user")
    /\ Roles # <<>> => Roles[1] = "user"
    /\ \A i \in DOMAIN Roles :
          Roles[i] = "assistant" => (i > 1 /\ Roles[i - 1] = "user")
    /\ \A i \in DOMAIN Roles : Roles[i] \in {"user", "assistant"}

\* A failed Send and then a successful one: two user entries in a row.
C27_Witness ==
    /\ SendSucceeded
    /\ Roles = <<"user", "user", "assistant">>

\* C28 (as stated): current_config['language'] is always a key of the
\* system_messages table.
C28_LanguageIsKnown == LanguageKnown(provider, current_config)

(* ------------------------------------------------------------------ *)
(* Properties of clear                                                 *)
(* ------------------------------------------------------------------ *)

\* The conversation part of a request: its messages without the system
\* message.
ConversationPart(p, request) ==
    SelectSeq(WireMessages(p, request), LAMBDA m : m.role # "system")

\* C29: a clear leaves the history empty and the configuration as it was,
\* and the request built by a Send that directly follows a clear has a
\* conversation part that holds the new user message and nothing else (with
\* an image, the prompt of the image in the place of the message).
C29_ClearEmptiesHistoryOnly ==
    [][/\ last'.op = "clear" =>
            (conversation_history' = <<>> /\ current_config' = current_config)
       /\ (last.op = "clear" /\ last'.op = "send" /\ last'.out.built) =>
            LET part == ConversationPart(provider, last'.out.request)
            IN /\ Len(part) = 1
               /\ part[1].role = "user"
               /\ ~last'.has_image => part[1].content = last'.message]_vars

\* The first Send after a clear has been answered: an Anthropic session whose
\* history was empty again after a Send had failed or a clear had been made.
C29_Witness ==
    /\ provider = "anthropic"
    /\ SendSucceeded
    /\ last.hist_before = <<>>
    /\ pure_sends = -1
    /\ last.out.built

(* ------------------------------------------------------------------ *)
(* Properties of the Anthropic error handling                          *)
(* ------------------------------------------------------------------ *)

\* C30 (as stated): a request-level failure of an Anthropic Send, with or
\* without an HTTP response, returns the API error, with the model hint
\* exactly when the status is 404, and never the unexpected-error value.
C30_RequestFailureIsAnApiError ==
    (/\ provider = "anthropic"
     /\ last.op = "send"
     /\ last.env.kind = "dispatch_error") =>
        /\ last.out.result = "error"
        /\ last.out.err \in {"api", "api_model_hint"}
        /\ last.out.err = "api_model_hint" <=> last.env.status = 404

====
